---- MODULE Spec2Model ----
(***************************************************************************)
(* xtask-base: the CI pipeline model (ci.rs) and its two interpretations,  *)
(* the GitHub-actions renderer and the local executor (github/actions.rs). *)
(*                                                                         *)
(* Values:                                                                 *)
(*   Option<T>  is <<>> (None) or <<v>> (Some(v))                          *)
(*   Cmd        is [program, args]                                         *)
(*   Run        is [script |-> [kind, cmds], directory]                    *)
(*   Step       is [kind |-> "Empty"] | [kind |-> "Multi", steps]          *)
(*                 | [kind |-> "Action", action] | [kind |-> "Run", run]   *)
(*   Task       is [kind |-> "Install", step] | [kind |-> "Run", run]      *)
(*   Tasks      is [name, platform, is_nightly, tasks]                     *)
(***************************************************************************)
EXTENDS Integers, Sequences, FiniteSets, TLC

VARIABLES
    hostOS,    \* std::env::consts::OS of the build that is running
    cur,       \* Option<Tasks>: the Task-list a caller is building
    ci,        \* CI.0: Vec<Tasks>
    pc,        \* "build" | "ci_loop" | "tasks_run" | "tasks_loop" | "run_loop" | "done"
    ti,        \* CI::run: index of the Task-list being run (0: no CI, `cur` is run)
    si,        \* Tasks::run: index of the task being visited
    k,         \* Run::run: index of the command of the script being run
    spawned,   \* every duct expression run so far, in order
    returned,  \* the value each Tasks::run call returned, in order
    result     \* what the outermost run() returned: "none" | "Ok" | "Err"

vars == <<hostOS, cur, ci, pc, ti, si, k, spawned, returned, result>>

(* ---------------------------- bounds ----------------------------------- *)

\* the longest pipeline a caller assembles with job()
MaxJobs == 3

\* once a Task-list holds this many tasks the caller appends no more
MaxSteps == 4

(* ------------------------- github/actions.rs --------------------------- *)

Platform == {"UbuntuLatest", "MacOSLatest", "WindowsLatest"}

latest == <<"UbuntuLatest", "MacOSLatest", "WindowsLatest">>

is_current_mac_copy(self, OS) ==
    CASE self = "UbuntuLatest" -> OS = "linux"
      [] self = "MacOSLatest" -> OS = "linux" \/ OS = "macos"
      [] self = "WindowsLatest" -> OS = "windows"

is_current_windows_typo(self, OS) ==
    CASE self = "UbuntuLatest" -> OS = "linux"
      [] self = "MacOSLatest" -> OS = "macos"
      [] self = "WindowsLatest" -> OS = "win32"

is_current(self, OS) ==
    CASE self = "UbuntuLatest" -> OS = "linux"
      [] self = "MacOSLatest" -> OS = "macos"
      [] self = "WindowsLatest" -> OS = "windows"

as_str_all_ubuntu(self) ==
    CASE self = "UbuntuLatest" -> "ubuntu-latest"
      [] self = "MacOSLatest" -> "ubuntu-latest"
      [] self = "WindowsLatest" -> "windows-latest"

as_str(self) ==
    CASE self = "UbuntuLatest" -> "ubuntu-latest"
      [] self = "MacOSLatest" -> "macos-latest"
      [] self = "WindowsLatest" -> "windows-latest"

action(uses) == [uses |-> uses, with |-> <<>>]

add_with(self, key, value) == [self EXCEPT !.with = Append(@, <<key, value>>)]

ActionStep(value) == [kind |-> "Action", action |-> value]

RunStep(value) == [kind |-> "Run", run |-> value]

EmptyStep == [kind |-> "Empty"]

multi_step(steps) == [kind |-> "Multi", steps |-> steps]

checkout == ActionStep(action("actions/checkout@v3"))

rust_cache == ActionStep(action("Swatinem/rust-cache@v2"))

upload_artifact(name, path) ==
    ActionStep(add_with(add_with(action("actions/upload-artifact@v3"), "name", name),
                        "path", path))

when(condition, step) == IF condition THEN step ELSE EmptyStep

CmdNew(program, args) == [program |-> program, args |-> args]

\* impl From<Args> for Cmd: the first element is the program
CmdFrom(line) == CmdNew(Head(line), Tail(line))

cmd(program, args) ==
    [script |-> [kind |-> "Single", cmds |-> <<CmdNew(program, args)>>],
     directory |-> <<>>]

script(lines) ==
    [script |-> [kind |-> "Multi", cmds |-> [i \in 1..Len(lines) |-> CmdFrom(lines[i])]],
     directory |-> <<>>]

in_directory(self, directory) == [self EXCEPT !.directory = <<directory>>]

install(crate_name, version) ==
    RunStep(cmd("cargo", <<"install", crate_name, "--locked", "--version", version>>))

rust_toolchain(version) ==
    [toolchain |-> version, profile |-> <<>>, default |-> FALSE,
     components |-> <<>>, targets |-> <<>>]

starts_with(s, prefix) ==
    Len(s) >= Len(prefix) /\ SubSeq(s, 1, Len(prefix)) = prefix

is_nightly_exact(self) == self.toolchain = "nightly"

is_nightly(self) == starts_with(self.toolchain, "nightly")

wasm(self) ==
    [self EXCEPT !.targets =
        <<(IF @ = <<>> THEN <<>> ELSE @[1]) \o <<"wasm32-unknown-unknown">>>>]

minimal(self) == [self EXCEPT !.profile = <<"minimal">>]

default(self) == [self EXCEPT !.default = TRUE]

clippy(self) == [self EXCEPT !.components = Append(@, "clippy")]

rustfmt(self) == [self EXCEPT !.components = Append(@, "rustfmt")]

RECURSIVE join(_, _)
join(strs, sep) ==
    IF strs = <<>> THEN ""
    ELSE IF Len(strs) = 1 THEN strs[1]
    ELSE strs[1] \o sep \o join(Tail(strs), sep)

\* impl From<Rust> for Step
RustStep(value) ==
    LET a0 == add_with(action("ructions/toolchain@v2"), "toolchain", value.toolchain)
        a1 == IF value.profile # <<>> THEN add_with(a0, "profile", value.profile[1]) ELSE a0
        a2 == IF value.default THEN add_with(a1, "default", "true") ELSE a1
        a3 == IF value.components # <<>>
              THEN add_with(a2, "components", join(value.components, ", ")) ELSE a2
        a4 == IF value.targets # <<>>
              THEN add_with(a3, "targets", join(value.targets[1], ", ")) ELSE a3
    IN  ActionStep(a4)

install_rust(rust) == multi_step(<<checkout, RustStep(rust), rust_cache>>)

\* Cmd::run_in_dir: the duct expression that is run
run_in_dir(self, dir, nightly) ==
    [argv |-> IF nightly
              THEN <<"rustup", "run", "nightly", self.program>> \o self.args
              ELSE <<self.program>> \o self.args,
     dir |-> dir]

(* ----------------------------- rendering ------------------------------- *)

RECURSIVE CmdArgsFmt(_)
CmdArgsFmt(args) ==
    IF args = <<>> THEN "" ELSE " " \o Head(args) \o CmdArgsFmt(Tail(args))

CmdFmt(self) == self.program \o CmdArgsFmt(self.args)

ActionFmt(self) ==
    <<"    - uses: " \o self.uses>>
    \o (IF self.with # <<>>
        THEN <<"      with:">>
             \o [i \in 1..Len(self.with) |->
                    "        " \o self.with[i][1] \o ": " \o self.with[i][2]]
        ELSE <<>>)

\* impl Display for Run: "    - " opens the step, and a working directory takes
\* that line for itself and moves `run:` to the next one
RunFmt(self) ==
    LET head == IF self.directory # <<>>
                THEN <<"    - working-directory: " \o self.directory[1]>>
                ELSE <<>>
        lead == IF self.directory # <<>> THEN "      " ELSE "    - "
    IN  head \o
        (IF self.script.kind = "Single"
         THEN <<lead \o "run: " \o CmdFmt(self.script.cmds[1])>>
         ELSE <<lead \o "run: |">>
              \o [i \in 1..Len(self.script.cmds) |->
                     "        " \o CmdFmt(self.script.cmds[i])])

RECURSIVE StepFmt(_)
RECURSIVE StepsFmt(_)
StepsFmt(steps) ==
    IF steps = <<>> THEN <<>> ELSE StepFmt(Head(steps)) \o StepsFmt(Tail(steps))

StepFmt(self) ==
    CASE self.kind = "Empty" -> <<>>
      [] self.kind = "Multi" -> StepsFmt(self.steps)
      [] self.kind = "Action" -> ActionFmt(self.action)
      [] self.kind = "Run" -> RunFmt(self.run)

\* impl From<Task> for Step
StepFromTask(value) ==
    IF value.kind = "Install" THEN value.step ELSE RunStep(value.run)

JobNew(name, runs_on, steps) == [name |-> name, runs_on |-> runs_on, steps |-> steps]

\* the identity line of impl Display for Job, without the indentation and colon
JobIdentity(self) == self.name \o "-" \o as_str(self.runs_on)

JobFmt(self) ==
    <<"  " \o JobIdentity(self) \o ":", "    runs-on: " \o as_str(self.runs_on),
      "    steps:">>
    \o StepsFmt(self.steps)

\* CI::into_workflow
into_workflow(self) ==
    [name |-> "ci-tests", triggers |-> <<"push", "pull_request">>,
     jobs |-> [i \in 1..Len(self) |->
                  JobNew(self[i].name, self[i].platform,
                         [j \in 1..Len(self[i].tasks) |-> StepFromTask(self[i].tasks[j])])]]

(* -------------------------------- ci.rs -------------------------------- *)

InstallTask(step) == [kind |-> "Install", step |-> step]

RunTask(run) == [kind |-> "Run", run |-> run]

step_prepend(self, step) == [self EXCEPT !.tasks = <<InstallTask(step)>> \o @]

step(self, s) == [self EXCEPT !.tasks = Append(@, InstallTask(s))]

TasksCmd(self, program, args) ==
    [self EXCEPT !.tasks = Append(@, RunTask(cmd(program, args)))]

TasksScript(self, cmds) == [self EXCEPT !.tasks = Append(@, RunTask(script(cmds)))]

TasksNew(name, platform, rust) ==
    step([name |-> name, platform |-> platform, is_nightly |-> is_nightly(rust),
          tasks |-> <<>>],
         install_rust(rust))

tests(self) ==
    TasksCmd(
      TasksCmd(
        TasksCmd(
          TasksCmd(
            TasksCmd(self, "cargo", <<"xtask", "codegen", "--check">>),
            "cargo",
            <<"clippy", "--all-targets", "--", "-D", "warnings", "-D", "clippy::all">>),
          "cargo", <<"test">>),
        "cargo", <<"build", "--all-targets">>),
      "cargo", <<"doc">>)

release_tests(self) ==
    TasksCmd(self, "cargo", <<"test", "--benches", "--tests", "--release">>)

lints(self, udeps_version) ==
    TasksCmd(
      step(TasksCmd(self, "cargo", <<"fmt", "--all", "--", "--check">>),
           install("cargo-udeps", udeps_version)),
      "cargo", <<"udeps", "--all-targets">>)

add_job(self, tasks) == Append(self, tasks)

job(self, tasks) == add_job(self, tasks)

standard_lints(self, rustc_version, udeps_version) ==
    job(self,
        lints(TasksNew("lints", "UbuntuLatest",
                       rustfmt(default(minimal(rust_toolchain(rustc_version))))),
              udeps_version))

standard_tests(self, rustc_version) ==
    self \o [i \in 1..Len(latest) |->
                tests(TasksNew("tests", latest[i],
                               clippy(default(minimal(rust_toolchain(rustc_version))))))]

standard_release_tests(self, rustc_version) ==
    self \o [i \in 1..Len(latest) |->
                release_tests(TasksNew("release-tests", latest[i],
                                       default(minimal(rust_toolchain(rustc_version)))))]

standard_workflow ==
    standard_lints(standard_release_tests(standard_tests(<<>>, "1.73"), "1.73"),
                   "nightly-2023-10-14", "0.1.43")

\* the `?` of `cmd.run_in_dir(dir, is_nightly)?` in Run::run
RunRunTryIgnore(ok) == FALSE

RunRunTry(ok) == ~ok

\* the `?` of `cmd.run(self.is_nightly)?` in Tasks::run
TasksRunTry(ok) == ~ok

\* the `?` of `task.run()?` in CI::run
CIRunTryIgnore(ok) == FALSE

CIRunTry(ok) == ~ok

\* `if self.platform.is_current()` in Tasks::run
TasksRunGateOpen(self, OS) == TRUE

TasksRunGate(self, OS) == is_current(self.platform, OS)

\* `if let Task::Run(cmd) = task` in Tasks::run
IsTaskRunSingle(task) == task.kind = "Run" /\ task.run.script.kind = "Single"

IsTaskRun(task) == task.kind = "Run"

(* ------------------------------ inputs --------------------------------- *)

OSValues == {"linux", "macos", "windows", "freebsd"}

Names == {"tests", "lints"}

Stable == clippy(default(minimal(rust_toolchain("1.73"))))

NightlyPinned == rustfmt(default(minimal(rust_toolchain("nightly-2023-10-14"))))

RustInputs == { Stable, NightlyPinned, wasm(rust_toolchain("nightly")) }

StepInputs ==
    { install("cargo-udeps", "0.1.43"),
      multi_step(<<checkout, RunStep(in_directory(cmd("cargo", <<"doc">>), "docs"))>>),
      when(FALSE, checkout),
      upload_artifact("logs", "target/logs") }

CmdInputs == { <<"cargo", <<"test">>>>, <<"x", <<"y">>>> }

ScriptInputs == { <<>>, << <<"cargo", "build">>, <<"z">> >> }

Versions == {"1.73", "nightly-2023-10-14"}

\* the Task-lists a caller hands to CI::job
JobInputs ==
    { TasksScript(TasksCmd(TasksNew("tests", p, r), "x", <<"y">>),
                  << <<"cargo", "build">>, <<"z">> >>) :
        p \in Platform, r \in {Stable, NightlyPinned} }
    \cup { step(TasksNew("docs", p, Stable), install("mdbook", "0.4.35")) : p \in Platform }

(* ------------------------------ actions -------------------------------- *)

Init ==
    /\ hostOS \in OSValues
    /\ cur = <<>>
    /\ ci = <<>>
    /\ pc = "build"
    /\ ti = 0
    /\ si = 0
    /\ k = 0
    /\ spawned = <<>>
    /\ returned = <<>>
    /\ result = "none"

runVars == <<pc, ti, si, k, spawned, returned, result>>

Building == pc = "build"

\* the Task-list Tasks::run is running: ti = 0 when a caller runs `cur` itself
Running == IF ti = 0 THEN cur[1] ELSE ci[ti]

NewTasks ==
    /\ Building /\ cur = <<>>
    /\ \E name \in Names, platform \in Platform, rust \in RustInputs :
          cur' = <<TasksNew(name, platform, rust)>>
    /\ UNCHANGED <<hostOS, ci, runVars>>

CanAppend == Building /\ cur # <<>> /\ Len(cur[1].tasks) < MaxSteps

AppendStep ==
    /\ CanAppend
    /\ \E s \in StepInputs : cur' = <<step(cur[1], s)>>
    /\ UNCHANGED <<hostOS, ci, runVars>>

AppendCmd ==
    /\ CanAppend
    /\ \E c \in CmdInputs : cur' = <<TasksCmd(cur[1], c[1], c[2])>>
    /\ UNCHANGED <<hostOS, ci, runVars>>

AppendScript ==
    /\ CanAppend
    /\ \E lines \in ScriptInputs : cur' = <<TasksScript(cur[1], lines)>>
    /\ UNCHANGED <<hostOS, ci, runVars>>

AppendTests ==
    /\ CanAppend
    /\ cur' = <<tests(cur[1])>>
    /\ UNCHANGED <<hostOS, ci, runVars>>

AppendReleaseTests ==
    /\ CanAppend
    /\ cur' = <<release_tests(cur[1])>>
    /\ UNCHANGED <<hostOS, ci, runVars>>

AppendLints ==
    /\ CanAppend
    /\ cur' = <<lints(cur[1], "0.1.43")>>
    /\ UNCHANGED <<hostOS, ci, runVars>>

\* a caller runs the Task-list it built: Tasks::run
TasksRun ==
    /\ Building /\ cur # <<>>
    /\ pc' = "tasks_run"
    /\ ti' = 0
    /\ UNCHANGED <<hostOS, cur, ci, si, k, spawned, returned, result>>

CanAddJob == Building /\ Len(ci) < MaxJobs

CIJob ==
    /\ CanAddJob
    /\ \E tasks \in JobInputs : ci' = job(ci, tasks)
    /\ UNCHANGED <<hostOS, cur, runVars>>

CIStandardTests ==
    /\ CanAddJob
    /\ \E v \in Versions : ci' = standard_tests(ci, v)
    /\ UNCHANGED <<hostOS, cur, runVars>>

CIStandardReleaseTests ==
    /\ CanAddJob
    /\ \E v \in Versions : ci' = standard_release_tests(ci, v)
    /\ UNCHANGED <<hostOS, cur, runVars>>

CIStandardLints ==
    /\ CanAddJob
    /\ \E v \in Versions : ci' = standard_lints(ci, v, "0.1.43")
    /\ UNCHANGED <<hostOS, cur, runVars>>

CIStandardWorkflow ==
    /\ Building /\ ci = <<>>
    /\ ci' = standard_workflow
    /\ UNCHANGED <<hostOS, cur, runVars>>

\* CI::run is called: the loop over self.0 starts
CIRun ==
    /\ Building
    /\ pc' = "ci_loop"
    /\ ti' = 1
    /\ UNCHANGED <<hostOS, cur, ci, si, k, spawned, returned, result>>

\* CI::run: task.run() is called on the next Task-list
CIRunCall ==
    /\ pc = "ci_loop" /\ ti <= Len(ci)
    /\ pc' = "tasks_run"
    /\ UNCHANGED <<hostOS, cur, ci, ti, si, k, spawned, returned, result>>

\* CI::run: the loop is over, Ok(())
CIRunOk ==
    /\ pc = "ci_loop" /\ ti > Len(ci)
    /\ pc' = "done"
    /\ result' = "Ok"
    /\ UNCHANGED <<hostOS, cur, ci, ti, si, k, spawned, returned>>

\* Tasks::run returns res, to its caller or into the loop of CI::run
TasksReturn(res) ==
    /\ returned' = Append(returned, [job |-> ti, res |-> res])
    /\ IF ti = 0
       THEN /\ pc' = "done"
            /\ result' = res
            /\ UNCHANGED ti
       ELSE IF CIRunTry(res = "Ok")
       THEN /\ pc' = "done"
            /\ result' = "Err"
            /\ UNCHANGED ti
       ELSE /\ pc' = "ci_loop"
            /\ ti' = ti + 1
            /\ UNCHANGED result

\* Tasks::run on a Task-list of another platform: Ok(()) at once
TasksRunSkip ==
    /\ pc = "tasks_run"
    /\ ~TasksRunGate(Running, hostOS)
    /\ TasksReturn("Ok")
    /\ UNCHANGED <<hostOS, cur, ci, si, k, spawned>>

\* Tasks::run on a Task-list of this platform: the loop over self.tasks starts
TasksRunEnter ==
    /\ pc = "tasks_run"
    /\ TasksRunGate(Running, hostOS)
    /\ pc' = "tasks_loop"
    /\ si' = 1
    /\ UNCHANGED <<hostOS, cur, ci, ti, k, spawned, returned, result>>

\* Tasks::run: the loop is over, Ok(())
TasksRunOk ==
    /\ pc = "tasks_loop" /\ si > Len(Running.tasks)
    /\ TasksReturn("Ok")
    /\ UNCHANGED <<hostOS, cur, ci, si, k, spawned>>

\* Tasks::run: a task that is not Task::Run is passed over
TasksRunPass ==
    /\ pc = "tasks_loop" /\ si <= Len(Running.tasks)
    /\ ~IsTaskRun(Running.tasks[si])
    /\ si' = si + 1
    /\ UNCHANGED <<hostOS, cur, ci, pc, ti, k, spawned, returned, result>>

\* Tasks::run: Task::Run(cmd) => cmd.run(self.is_nightly)
RunRunEnter ==
    /\ pc = "tasks_loop" /\ si <= Len(Running.tasks)
    /\ IsTaskRun(Running.tasks[si])
    /\ pc' = "run_loop"
    /\ k' = 1
    /\ UNCHANGED <<hostOS, cur, ci, ti, si, spawned, returned, result>>

\* Run::run: every command of the script was run, Ok(())
RunRunOk ==
    /\ pc = "run_loop" /\ k > Len(Running.tasks[si].run.script.cmds)
    /\ pc' = "tasks_loop"
    /\ si' = si + 1
    /\ UNCHANGED <<hostOS, cur, ci, ti, k, spawned, returned, result>>

\* Cmd::run_in_dir: the process is spawned and waited for; it succeeds or fails,
\* and a failure travels up through the `?` of Run::run and of Tasks::run
Spawn ==
    /\ pc = "run_loop" /\ k <= Len(Running.tasks[si].run.script.cmds)
    /\ \E ok \in BOOLEAN :
        LET run  == Running.tasks[si].run
            c    == run.script.cmds[k]
            expr == run_in_dir(c, run.directory, Running.is_nightly)
        IN  /\ spawned' = Append(spawned,
                    [job |-> ti, task |-> si, cmd |-> c, argv |-> expr.argv,
                     dir |-> expr.dir, ok |-> ok])
            /\ IF ~RunRunTry(ok)
               THEN /\ k' = k + 1
                    /\ UNCHANGED <<pc, ti, si, returned, result>>
               ELSE IF ~TasksRunTry(ok)
               THEN /\ pc' = "tasks_loop"
                    /\ si' = si + 1
                    /\ UNCHANGED <<ti, k, returned, result>>
               ELSE /\ TasksReturn("Err")
                    /\ UNCHANGED <<si, k>>
    /\ UNCHANGED <<hostOS, cur, ci>>

\* a pipeline is assembled from Task-lists and standard policies, then CI::run
Next ==
    \/ CIJob
    \/ CIStandardTests
    \/ CIStandardReleaseTests
    \/ CIStandardLints
    \/ CIStandardWorkflow
    \/ CIRun
    \/ CIRunCall
    \/ CIRunOk
    \/ TasksRunSkip
    \/ TasksRunEnter
    \/ TasksRunOk
    \/ TasksRunPass
    \/ RunRunEnter
    \/ RunRunOk
    \/ Spawn

Spec == Init /\ [][Next]_vars

\* one Task-list is built call by call, then Tasks::run
NextTasks ==
    \/ NewTasks
    \/ AppendStep
    \/ AppendCmd
    \/ AppendScript
    \/ AppendTests
    \/ AppendReleaseTests
    \/ AppendLints
    \/ TasksRun
    \/ TasksRunSkip
    \/ TasksRunEnter
    \/ TasksRunOk
    \/ TasksRunPass
    \/ RunRunEnter
    \/ RunRunOk
    \/ Spawn

SpecTasks == Init /\ [][NextTasks]_vars

(* --------------------------- claim vocabulary -------------------------- *)

\* the platform is the one of the detected host
Matches(platform) ==
    <<platform, hostOS>> \in
        { <<"UbuntuLatest", "linux">>, <<"MacOSLatest", "macos">>,
          <<"WindowsLatest", "windows">> }

IsPrefix(s, t) == Len(s) <= Len(t) /\ SubSeq(t, 1, Len(s)) = s

HasPrefix(s, prefix) == Len(s) >= Len(prefix) /\ SubSeq(s, 1, Len(prefix)) = prefix

SpawnedCmds == [i \in 1..Len(spawned) |-> spawned[i].cmd]

\* the commands of the Run leaves of a step, depth first
RECURSIVE StepRunCmds(_)
RECURSIVE StepsRunCmds(_)
StepsRunCmds(steps) ==
    IF steps = <<>> THEN <<>> ELSE StepRunCmds(Head(steps)) \o StepsRunCmds(Tail(steps))

StepRunCmds(s) ==
    CASE s.kind = "Run" -> s.run.script.cmds
      [] s.kind = "Multi" -> StepsRunCmds(s.steps)
      [] OTHER -> <<>>

\* the commands of every Run leaf a Task-list contains, however it was appended
AllRunLeafCmds(tasks) ==
    StepsRunCmds([j \in 1..Len(tasks) |->
                    IF tasks[j].kind = "Install" THEN tasks[j].step
                    ELSE [kind |-> "Run", run |-> tasks[j].run]])

\* the commands of the tasks appended with cmd() and script() only
RECURSIVE RunTaskCmds(_)
RunTaskCmds(tasks) ==
    IF tasks = <<>> THEN <<>>
    ELSE (IF Head(tasks).kind = "Run" THEN Head(tasks).run.script.cmds ELSE <<>>)
         \o RunTaskCmds(Tail(tasks))

\* the text of the job a Task-list renders to
Rendered(tasks) == JobFmt(into_workflow(<<tasks>>).jobs[1])

ToolchainKey == "        toolchain: "

\* the channel the rendered job asks the toolchain action to install
RenderedChannel(tasks) ==
    LET lines == Rendered(tasks)
        i == CHOOSE i \in 1..Len(lines) : HasPrefix(lines[i], ToolchainKey)
    IN  SubSeq(lines[i], Len(ToolchainKey) + 1, Len(lines[i]))

IsStepHead(line) == HasPrefix(line, "    - ")

StepHeads(lines) == SelectSeq(lines, IsStepHead)

Preamble ==
    << "    - uses: actions/checkout@v3", "    - uses: ructions/toolchain@v2",
       "    - uses: Swatinem/rust-cache@v2" >>

DirectArgv(c) == <<c.program>> \o c.args

(* -------------------------------- C1 ----------------------------------- *)

C2_OffPlatformSpawnsNothing ==
    (cur # <<>> /\ ~Matches(cur[1].platform))
        => /\ spawned = <<>>
           /\ pc \in {"build", "tasks_run", "done"}
           /\ (pc = "done" => result = "Ok" /\ returned = <<[job |-> 0, res |-> "Ok"]>>)

C2_Witness ==
    /\ pc = "done" /\ result = "Ok" /\ spawned = <<>>
    /\ cur # <<>> /\ ~Matches(cur[1].platform) /\ hostOS = "macos"
    /\ cur[1].is_nightly
    /\ Len(RunTaskCmds(cur[1].tasks)) >= 2

(* -------------------------------- C3 ----------------------------------- *)

\* C3: the first command that fails is the last one spawned (no later line of
\* the same script, no later step), Tasks::run returns that failure, and the
\* commands spawned up to it are the Task-list's commands in order, once each.
C3_FirstFailureIsLast ==
    /\ \A i \in 1..Len(spawned) :
          ~spawned[i].ok => i = Len(spawned) /\ pc = "done" /\ result = "Err"
    /\ result = "Err" => spawned # <<>> /\ ~spawned[Len(spawned)].ok
    /\ cur # <<>> => IsPrefix(SpawnedCmds, RunTaskCmds(cur[1].tasks))

\* a script's first line failed after an earlier command succeeded, and both
\* the script's second line and a later step were left unspawned
C3_Witness ==
    /\ pc = "done" /\ result = "Err" /\ Len(spawned) >= 2
    /\ LET last == spawned[Len(spawned)]
           run  == cur[1].tasks[last.task].run
       IN  /\ run.script.kind = "Multi"
           /\ last.cmd = run.script.cmds[1]
           /\ Len(run.script.cmds) >= 2
           /\ last.task < Len(cur[1].tasks)
           /\ cur[1].tasks[Len(cur[1].tasks)].kind = "Run"

(* -------------------------------- C4 ----------------------------------- *)

\* the channel of the toolchain descriptor the Task-list was constructed from,
\* as the preamble's toolchain action keeps it
ConstructedChannel(tasks) == tasks.tasks[1].step.steps[2].action.with[1][2]

\* C4: when the descriptor's channel begins with "nightly" every command is
\* spawned as rustup run nightly <program> <args...>, otherwise as
\* <program> <args...>; only the descriptor given at construction decides.
C4_NightlyWrapping ==
    \A i \in 1..Len(spawned) :
        LET e == spawned[i]
        IN  e.argv = IF HasPrefix(ConstructedChannel(cur[1]), "nightly")
                     THEN <<"rustup", "run", "nightly">> \o DirectArgv(e.cmd)
                     ELSE DirectArgv(e.cmd)

C4_Witness ==
    /\ pc = "done" /\ Len(spawned) >= 2
    /\ ConstructedChannel(cur[1]) = "nightly-2023-10-14"
    /\ spawned[1].argv[1] = "rustup"
    /\ Len(spawned[2].cmd.args) >= 2

(* -------------------------------- C9 ----------------------------------- *)

\* C9: for a Task-list of a nightly descriptor, the channel handed to the
\* wrapper is the channel the rendered job installs.
C9_SameChannelAsRendered ==
    \A i \in 1..Len(spawned) :
        HasPrefix(RenderedChannel(cur[1]), "nightly")
            => spawned[i].argv[3] = RenderedChannel(cur[1])

(* -------------------------------- C7 ----------------------------------- *)

\* (a Task-list is not touched once it runs: the text is looked at while it is built)
C7_BeginsWithPreamble ==
    (pc = "build" /\ cur # <<>>) =>
        /\ cur[1].tasks # <<>>
        /\ cur[1].tasks[1].kind = "Install"
        /\ IsPrefix(Preamble, StepHeads(Rendered(cur[1])))

C7_OnlyAppends ==
    (cur # <<>> /\ cur' # <<>>) => IsPrefix(cur[1].tasks, cur'[1].tasks)

\* C7: a Task-list, and so its rendered job, always begins with checkout,
\* toolchain install, cache restore, in that order, and a builder call only
\* appends: the tasks before the call are a prefix of the tasks after it.
C7_PreambleKept == [](C7_BeginsWithPreamble) /\ [][C7_OnlyAppends]_vars

C7_Witness ==
    /\ cur # <<>> /\ Len(cur[1].tasks) >= 3
    /\ cur[1].tasks[2].kind = "Install"
    /\ cur[1].tasks[3].kind = "Run"
    /\ pc = "build"

(* -------------------------------- C5 ----------------------------------- *)

\* C5: CI::run runs the Task-lists one after another in append order, and once
\* a Task-list has failed no command of a later one is spawned and CI::run
\* returns the failure.
C5_InOrderUntilFailure ==
    /\ \A i \in 1..Len(returned) : returned[i].job = i
    /\ \A i \in 1..Len(spawned) :
          /\ spawned[i].job \in {Len(returned), Len(returned) + 1}
                \/ returned[spawned[i].job].res = "Ok"
          /\ i < Len(spawned) => spawned[i].job <= spawned[i + 1].job
    /\ \A i \in 1..Len(returned) :
          returned[i].res = "Err"
              => /\ i = Len(returned) /\ pc = "done" /\ result = "Err"
                 /\ \A j \in 1..Len(spawned) : spawned[j].job <= i

\* a Task-list failed after an earlier one had run, and a later Task-list
\* of the host's platform, holding commands, was left alone
C5_Witness ==
    /\ pc = "done" /\ result = "Err" /\ Len(returned) >= 2
    /\ \E i \in 1..Len(spawned) : spawned[i].job < Len(returned)
    /\ \E j \in (Len(returned) + 1)..Len(ci) :
          Matches(ci[j].platform) /\ RunTaskCmds(ci[j].tasks) # <<>>

(* -------------------------------- C10 ---------------------------------- *)

RECURSIVE ExpectedFrom(_)
\* the commands of the Task-lists j..Len(ci) of the host's platform, in order
ExpectedFrom(j) ==
    IF j > Len(ci) THEN <<>>
    ELSE (IF Matches(ci[j].platform)
          THEN LET cs == RunTaskCmds(ci[j].tasks)
               IN  [i \in 1..Len(cs) |-> <<j, cs[i]>>]
          ELSE <<>>)
         \o ExpectedFrom(j + 1)

SpawnedOf == [i \in 1..Len(spawned) |-> <<spawned[i].job, spawned[i].cmd>>]

\* C10: what CI::run spawns is the concatenation, in append order, of the
\* commands of the Task-lists of the host's platform, cut off after the first
\* failing command; a Task-list of another platform adds no spawn and no error.
C10_SkippedNeverStops ==
    /\ IsPrefix(SpawnedOf, ExpectedFrom(1))
    /\ \A i \in 1..Len(spawned) : ~spawned[i].ok => i = Len(spawned)
    /\ \A i \in 1..Len(returned) :
          ~Matches(ci[returned[i].job].platform) => returned[i].res = "Ok"
    /\ pc = "done" =>
          IF result = "Ok"
          THEN SpawnedOf = ExpectedFrom(1)
          ELSE spawned # <<>> /\ ~spawned[Len(spawned)].ok

\* Task-lists of other platforms stood before, between and after two that ran
C10_Witness ==
    /\ pc = "done" /\ result = "Ok"
    /\ \E a, b, c, d, e \in 1..Len(ci) :
          /\ a < b /\ b < c /\ c < d /\ d < e
          /\ ~Matches(ci[a].platform) /\ ~Matches(ci[c].platform)
          /\ ~Matches(ci[e].platform)
          /\ \E i, j \in 1..Len(spawned) : spawned[i].job = b /\ spawned[j].job = d

(* -------------------------------- C6 ----------------------------------- *)

Identities(c) ==
    LET w == into_workflow(c) IN [i \in 1..Len(w.jobs) |-> JobIdentity(w.jobs[i])]

Count(c, name) == Cardinality({i \in 1..Len(c) : c[i].name = name})

StandardShape(c) ==
    /\ Count(c, "lints") = 1
    /\ \A p \in Platform :
          /\ Cardinality({i \in 1..Len(c) : c[i].name = "tests" /\ c[i].platform = p}) = 1
          /\ Cardinality({i \in 1..Len(c) :
                             c[i].name = "release-tests" /\ c[i].platform = p}) = 1
    /\ Len(c) = 1 + 2 * Cardinality(Platform)
    /\ Cardinality({Identities(c)[i] : i \in 1..Len(c)}) = Len(c)
    /\ \A i \in 1..Len(c) :
          Rendered(c[i])[1] = "  " \o c[i].name \o "-" \o as_str(c[i].platform) \o ":"

\* C6: the pipeline standard_workflow() produces holds exactly one lint job,
\* one test job and one release-test job per platform, 7 jobs in all, and
\* their rendered identities are pairwise distinct.
C6_StandardWorkflowShape == [][CIStandardWorkflow => StandardShape(ci')]_vars

C6_Witness ==
    /\ Len(ci) = 1 + 2 * Cardinality(Platform)
    /\ Count(ci, "release-tests") = Cardinality(Platform)
    /\ pc = "done"

(* -------------------------------- C8 ----------------------------------- *)

Current == {p \in Platform : is_current(p, hostOS)}

\* C8 as stated: at execution time, for every detected host OS, exactly one
\* platform is current.
C8_ExactlyOneCurrent == pc # "build" => Cardinality(Current) = 1

\* C8 amended: at most one platform is current, and one is exactly when the
\* host OS is linux, macos or windows; on any other host none is.
C8_AtMostOneCurrent ==
    /\ Cardinality(Current) <= 1
    /\ Cardinality(Current) = 1 <=> hostOS \in {"linux", "macos", "windows"}
    /\ \A i \in 1..Len(spawned) : ci[spawned[i].job].platform \in Current

\* on a host that is none of the three, a pipeline with a job for every
\* platform ran and spawned nothing
C8_Witness ==
    /\ Current = {}
    /\ pc = "done" /\ spawned = <<>>
    /\ \A p \in Platform : \E j \in 1..Len(ci) : ci[j].platform = p

====
